---- MODULE Spec2Model ----
(***************************************************************************)
(* Request telemetry of appinsights-rs (src/telemetry/request.rs):         *)
(* RequestTelemetry::new, its accessors, is_success, the conversion        *)
(* (TelemetryContext, RequestTelemetry) -> Envelope, the dotnet duration   *)
(* formatting and the id service.                                          *)
(*                                                                         *)
(* Text is a sequence of one-character or atomic string pieces, the empty  *)
(* string being the empty sequence, so that building and reading a string  *)
(* are computations.  Option<T> is <<>> (None) or <<v>> (Some(v)).         *)
(***************************************************************************)
EXTENDS Integers, Sequences, FiniteSets, TLC

VARIABLES
    pc,         \* position of the request-handling flow: "idle", "record", "built"
    telemetry,  \* Option<RequestTelemetry>: the record the flow owns
    created,    \* history: the arguments of new() and the record it returned
    context,    \* history: the TelemetryContext handed to Envelope::from
    envelope,   \* Option<Envelope>: the value Envelope::from returned
    ID,         \* id::ID, the thread local Option<Uuid> of the injection point
    issued,     \* Uuids returned by Uuid::new_v4 or handed to id::set so far
    ids         \* history: id and injection state of every record constructed

vars == <<pc, telemetry, created, context, envelope, ID, issued, ids>>

(***************************************************************************)
(* Bounds of the model.                                                    *)
(***************************************************************************)
MaxRecords == 2     \* records constructed in one behaviour
NumUuids == 2       \* size of the Uuid space
MaxDays == 2        \* whole days in the durations tried

None == <<>>
Some(v) == <<v>>

(***************************************************************************)
(* Text.                                                                   *)
(***************************************************************************)
Str(s) == IF s = "" THEN <<>> ELSE <<s>>

DigitChars == <<"0", "1", "2", "3", "4", "5", "6", "7", "8", "9">>

RECURSIVE Dec(_)
\* Display of an unsigned integer: its decimal digits, no padding.
Dec(n) == IF n < 10 THEN <<DigitChars[n + 1]>>
          ELSE Dec(n \div 10) \o <<DigitChars[(n % 10) + 1]>>

RECURSIVE PadLeft(_, _, _)
\* {:c>w}: fill on the left up to a minimum width w; longer text is kept whole.
PadLeft(s, w, c) == IF Len(s) >= w THEN s ELSE PadLeft(<<c>> \o s, w, c)

IsDigit(c) == \E d \in 1..10 : DigitChars[d] = c
DigitVal(c) == (CHOOSE d \in 1..10 : DigitChars[d] = c) - 1

RECURSIVE ParseDec(_)
\* str::parse of a non-empty digit string.
ParseDec(s) == IF Len(s) = 1 THEN DigitVal(s[1])
               ELSE ParseDec(SubSeq(s, 1, Len(s) - 1)) * 10 + DigitVal(s[Len(s)])

(***************************************************************************)
(* http::Uri.  A parsed Uri is absolute (scheme, authority, path, query),  *)
(* authority-form (authority only) or origin-form (path and query only,    *)
(* "*" included).                                                          *)
(***************************************************************************)
MkUri(scheme, userinfo, host, port, path, query) ==
    [scheme |-> scheme, userinfo |-> userinfo, host |-> host, port |-> port,
     path |-> path, query |-> query]

uri_host(u) == u.host
uri_port_u16(u) == u.port
uri_scheme_str(u) == u.scheme
uri_query(u) == u.query

uri_has_path(u) == u.path # "" \/ u.query # None \/ u.scheme # None
uri_path(u) == IF uri_has_path(u)
               THEN (IF u.path = "" THEN "/" ELSE u.path)
               ELSE ""

\* Display for Uri: "{scheme}://", authority, path, "?{query}".
uri_to_string(u) ==
    (IF u.scheme # None THEN Str(u.scheme[1]) \o <<"://">> ELSE <<>>)
    \o (IF u.userinfo # None THEN Str(u.userinfo[1]) \o <<"@">> ELSE <<>>)
    \o (IF u.host # None THEN Str(u.host[1]) ELSE <<>>)
    \o (IF u.port # None THEN <<":">> \o Dec(u.port[1]) ELSE <<>>)
    \o Str(uri_path(u))
    \o (IF u.query # None THEN <<"?">> \o Str(u.query[1]) ELSE <<>>)

Ok(v) == [ok |-> TRUE, val |-> v]
Err == [ok |-> FALSE]

\* Authority::try_from(&str): the empty string is rejected, otherwise host[:port].
authority_try_from(a) ==
    IF a = <<>> THEN Err
    ELSE Ok([host |-> Some(a[1]),
             port |-> IF Len(a) > 2 /\ a[2] = ":"
                      THEN Some(ParseDec(SubSeq(a, 3, Len(a)))) ELSE None])

\* Uri::builder().scheme(s).authority(a).path_and_query(p).build()
uri_build(s, a, p) ==
    LET auth == authority_try_from(a)
    IN  IF ~auth.ok THEN Err
        ELSE Ok(MkUri(Some(s), None, auth.val.host, auth.val.port, p, None))

unwrap_or(r, default) == IF r.ok THEN r.val ELSE default
unwrap_or_default(o) == IF o # None THEN o[1] ELSE ""

\* new(), lines 48-54: the authority string pushed together from host and port.
new_authority(uri) ==
    (IF uri_host(uri) # None THEN Str(uri_host(uri)[1]) ELSE <<>>)
    \o (IF uri_port_u16(uri) # None THEN <<":">> \o Dec(uri_port_u16(uri)[1]) ELSE <<>>)

\* new(), lines 56-60: the Uri rebuilt from scheme, authority and path.
new_rebuild(uri) ==
    uri_build(unwrap_or_default(uri_scheme_str(uri)), new_authority(uri), uri_path(uri))

\* A rebuild that hands the whole path-and-query to the builder.
new_uri_keep_query(uri) ==
    LET auth == authority_try_from(new_authority(uri))
    IN  IF ~auth.ok THEN uri
        ELSE MkUri(Some(unwrap_or_default(uri_scheme_str(uri))), None,
                   auth.val.host, auth.val.port, uri_path(uri), uri_query(uri))

\* A rebuild whose failure yields Uri::default() ("/") in place of the input.
new_uri_default_fallback(uri) ==
    unwrap_or(new_rebuild(uri), MkUri(None, None, None, None, "/", None))

\* new(), lines 56-61: the rebuilt Uri, or the input when the rebuild failed.
new_uri(uri) == unwrap_or(new_rebuild(uri), uri)

(***************************************************************************)
(* std::time::Duration is (secs, nanos) with nanos < 10^9.  as_nanos() is  *)
(* a u128; it is kept in two limbs, hi * Billion + lo, so that no product  *)
(* leaves the machine integers of the checker.                             *)
(***************************************************************************)
Billion == 1000000000
TicksPerSecond == 10000000
NanosPerTick == 100

Wide(hi, lo) == [hi |-> hi, lo |-> lo]

duration_as_nanos(d) == Wide(d.secs, d.nanos)

\* w / d for a divisor d of Billion.
WideDiv(w, d) == Wide(w.hi \div d, (w.hi % d) * (Billion \div d) + (w.lo \div d))

\* w % m for a divisor m of Billion.
WideMod(w, m) == w.lo % m

\* The value of w when it fits one limb.
Narrow(w) == w.hi * Billion + w.lo

fmt_fields(days, hours, minutes, seconds, ticks) ==
    Dec(days) \o <<".">> \o PadLeft(Dec(hours), 2, "0") \o <<":">>
    \o PadLeft(Dec(minutes), 2, "0") \o <<":">> \o PadLeft(Dec(seconds), 2, "0")
    \o <<".">> \o PadLeft(Dec(ticks), 7, "0")

\* A formatting that rounds the sub-tick remainder to the nearest tick.
FormattedDuration_fmt_rounding(d) ==
    LET nanoseconds == duration_as_nanos(d)
        ticks == (WideMod(WideDiv(nanoseconds, NanosPerTick), TicksPerSecond)
                  + (IF nanoseconds.lo % NanosPerTick >= 50 THEN 1 ELSE 0))
                 % TicksPerSecond
        total_seconds == Narrow(WideDiv(nanoseconds, Billion))
    IN  fmt_fields(total_seconds \div 86400, (total_seconds \div 3600) % 24,
                   (total_seconds \div 60) % 60, total_seconds % 60, ticks)

\* Display for FormattedDuration.
FormattedDuration_fmt(d) ==
    LET nanoseconds == duration_as_nanos(d)
        ticks == WideMod(WideDiv(nanoseconds, NanosPerTick), TicksPerSecond)
        total_seconds == Narrow(WideDiv(nanoseconds, Billion))
        seconds == total_seconds % 60
        minutes == (total_seconds \div 60) % 60
        hours == (total_seconds \div 3600) % 24
        days == total_seconds \div 86400
    IN  fmt_fields(days, hours, minutes, seconds, ticks)

(***************************************************************************)
(* chrono::DateTime<Utc>: a calendar date, the second of the day and the   *)
(* nanosecond of the second.                                               *)
(***************************************************************************)
time_of_day(ts) ==
    PadLeft(Dec(ts.secs \div 3600), 2, "0") \o <<":">>
    \o PadLeft(Dec((ts.secs \div 60) % 60), 2, "0") \o <<":">>
    \o PadLeft(Dec(ts.secs % 60), 2, "0")

\* The fraction written for a SecondsFormat.
fraction(nanos, format) ==
    CASE format = "Secs" -> <<>>
      [] format = "Millis" -> <<".">> \o PadLeft(Dec(nanos \div 1000000), 3, "0")
      [] format = "Nanos" -> <<".">> \o PadLeft(Dec(nanos), 9, "0")
      [] format = "AutoSi" ->
            IF nanos = 0 THEN <<>>
            ELSE IF nanos % 1000000 = 0
                 THEN <<".">> \o PadLeft(Dec(nanos \div 1000000), 3, "0")
                 ELSE IF nanos % 1000 = 0
                      THEN <<".">> \o PadLeft(Dec(nanos \div 1000), 6, "0")
                      ELSE <<".">> \o PadLeft(Dec(nanos), 9, "0")

\* DateTime<Utc>::to_rfc3339_opts(format, use_z)
to_rfc3339_opts(ts, format, use_z) ==
    Str(ts.date) \o <<"T">> \o time_of_day(ts) \o fraction(ts.nanos, format)
    \o (IF use_z THEN <<"Z">> ELSE <<"+", "0", "0", ":", "0", "0">>)

(***************************************************************************)
(* Properties, ContextTags and Measurements are BTreeMaps: functions from  *)
(* the keys present to their values.                                       *)
(***************************************************************************)
EmptyMap == [k \in {} |-> ""]
Insert(m, k, v) == [x \in (DOMAIN m) \cup {k} |-> IF x = k THEN v ELSE m[x]]
Remove(m, k) == [x \in (DOMAIN m) \ {k} |-> m[x]]

\* Properties::combine and ContextTags::combine: the second map's entries win.
combine(a, b) ==
    [k \in (DOMAIN a) \cup (DOMAIN b) |-> IF k \in DOMAIN b THEN b[k] ELSE a[k]]

\* Data::envelope_name(key) of a RequestData.
envelope_name(key) ==
    <<"Microsoft.ApplicationInsights.">> \o Str(key) \o <<".">> \o <<"Request">>

(***************************************************************************)
(* RequestTelemetry.                                                       *)
(***************************************************************************)
BAD_REQUEST == 400
UNAUTHORIZED == 401

\* RequestTelemetry::new, given what id::new() and time::now() returned.
NewRecord(method, uri, duration, response_code, id, now) ==
    LET u == new_uri(uri)
    IN  [id |-> id,
         name |-> Str(method) \o <<" ">> \o uri_to_string(u),
         uri |-> u,
         duration |-> duration,
         response_code |-> response_code,
         timestamp |-> now,
         properties |-> EmptyMap,
         tags |-> EmptyMap,
         measurements |-> EmptyMap]

\* A success test without the carve-out for 401.
is_success_no_carve_out(t) == t.response_code < BAD_REQUEST

is_success(t) ==
    t.response_code < BAD_REQUEST \/ t.response_code = UNAUTHORIZED

\* What a caller's write through properties_mut() leaves of the record.
properties_mut_aliasing(t, m) == [t EXCEPT !.properties = m, !.tags = m]
properties_mut(t, m) == [t EXCEPT !.properties = m]
tags_mut(t, m) == [t EXCEPT !.tags = m]
measurements_mut(t, m) == [t EXCEPT !.measurements = m]

(***************************************************************************)
(* impl From<(TelemetryContext, RequestTelemetry)> for Envelope            *)
(***************************************************************************)
to_hyphenated(id) == [hyphenated |-> id]

\* A merge with the record as base and the context as override.
EnvProperties_swapped(c, t) == combine(t.properties, c.properties)
EnvProperties(c, t) == combine(c.properties, t.properties)

EnvTags(c, t) == combine(c.tags, t.tags)

\* A build that leaves the measurements() call of the builder out.
EnvMeasurements_dropped(c, t) == EmptyMap
EnvMeasurements(c, t) == t.measurements

\* An envelope keyed by the normalized instrumentation key.
EnvIKey_normalized(c) == c.normalized_i_key
EnvIKey(c) == c.i_key

EnvName(c) == envelope_name(c.normalized_i_key)

\* A timestamp written with as many fraction digits as its value needs.
EnvTime_auto(t) == to_rfc3339_opts(t.timestamp, "AutoSi", TRUE)
EnvTime(t) == to_rfc3339_opts(t.timestamp, "Millis", TRUE)

EnvelopeFrom(c, t) ==
    [name |-> EnvName(c),
     time |-> EnvTime(t),
     i_key |-> EnvIKey(c),
     tags |-> EnvTags(c, t),
     data |-> [id |-> to_hyphenated(t.id),
               duration |-> FormattedDuration_fmt(t.duration),
               response_code |-> Dec(t.response_code),
               name |-> t.name,
               success |-> is_success(t),
               url |-> uri_to_string(t.uri),
               properties |-> EnvProperties(c, t),
               measurements |-> EnvMeasurements(c, t)]]

(***************************************************************************)
(* mod id.  Uuid::new_v4() draws a random 122-bit value; it is taken to    *)
(* return a value it has not returned, and that was not injected, before.  *)
(***************************************************************************)
Uuids == 1..NumUuids

\* An id service that ignores the injected value.
id_new_ignoring_injection == Uuids \ issued

\* The values id::new() can return.
id_new == IF ID # None THEN {ID[1]} ELSE Uuids \ issued

(***************************************************************************)
(* Inputs.                                                                 *)
(***************************************************************************)
Methods == {"GET", "POST"}

TestUri == MkUri(Some("https"), None, Some("example.com"), None, "/main.html", None)

Uris ==
    { MkUri(Some(s), ui, Some("example.com"), p, path, q) :
        s \in {"http", "https"}, ui \in {None}, p \in {None, Some(8080)},
        path \in {"", "/main.html"}, q \in {None, Some("x=1")} }
    \cup { MkUri(Some("https"), Some("user"), Some("example.com"), None, "/main.html", q) :
             q \in {None, Some("x=1")} }
    \cup { MkUri(None, None, Some("example.com"), p, "", None) : p \in {None, Some(8080)} }
    \cup { MkUri(None, None, None, None, path, q) :
             path \in {"/", "/main.html"}, q \in {None, Some("x=1")} }
    \cup { MkUri(None, None, None, None, "*", None) }

MkDuration(secs, nanos) == [secs |-> secs, nanos |-> nanos]
TestDuration == MkDuration(2, 0)

DaySeconds == {0, 1, 59, 60, 61, 3599, 3600, 3723, 86399}
SubsecNanos == {0, 1, 49, 50, 99, 100, 149, 150, 1000000, 999999899, 999999949,
                999999950, 999999999}
Durations ==
    { MkDuration(d * 86400 + s, n) : d \in 0..MaxDays, s \in DaySeconds, n \in SubsecNanos }

StatusCodes == 100..999

MkTime(date, secs, nanos) == [date |-> date, secs |-> secs, nanos |-> nanos]
TestNow == MkTime("2019-01-02", 11045, 800000000)
Timestamps ==
    { MkTime("2019-01-02", s, n) :
        s \in {0, 11045, 86399},
        n \in {0, 1, 999, 1000, 5000000, 123456789, 700000000, 800000000,
               999499999, 999500000, 999999999} }

Keys == {"test", "no-write"}
Values == {"ok", "fail"}
MeasureKeys == {"latency"}
MeasureValues == {200, 1}

TestMap == Insert(Insert(EmptyMap, "test", "ok"), "no-write", "fail")
ContextMaps == {EmptyMap, TestMap, Insert(EmptyMap, "no-write", "ok")}

MkContext(i_key, normalized_i_key, properties, tags) ==
    [i_key |-> i_key, normalized_i_key |-> normalized_i_key,
     properties |-> properties, tags |-> tags]

Contexts ==
    { MkContext(k[1], k[2], p, t) :
        k \in {<<"instrumentation", "instrumentation">>, <<"AB-CD", "abcd">>},
        p \in ContextMaps, t \in ContextMaps }

EmptyContext == MkContext("instrumentation", "instrumentation", EmptyMap, EmptyMap)

(***************************************************************************)
(* The request-handling flow: construct a record, fill its maps, build the *)
(* envelope, hand it to the sender.                                        *)
(***************************************************************************)
Init ==
    /\ pc = "idle"
    /\ telemetry = None
    /\ created = None
    /\ context = None
    /\ envelope = None
    /\ ID = None
    /\ issued = {}
    /\ ids = <<>>

RequestTelemetry_new(method, uri, duration, response_code, now) ==
    /\ pc = "idle"
    /\ Len(ids) < MaxRecords
    /\ \E id \in id_new :
         LET t == NewRecord(method, uri, duration, response_code, id, now)
         IN  /\ telemetry' = Some(t)
             /\ created' = Some([method |-> method, uri |-> uri, duration |-> duration,
                                 response_code |-> response_code, record |-> t])
             /\ issued' = issued \cup {id}
             /\ ids' = Append(ids, [id |-> id, injected |-> ID])
    /\ pc' = "record"
    /\ UNCHANGED <<context, envelope, ID>>

Mutate(t) ==
    /\ pc = "record"
    /\ telemetry' = Some(t)
    /\ UNCHANGED <<pc, created, context, envelope, ID, issued, ids>>

properties_insert(k, v) ==
    /\ telemetry # None
    /\ Mutate(properties_mut(telemetry[1], Insert(telemetry[1].properties, k, v)))

properties_remove(k) ==
    /\ telemetry # None
    /\ k \in DOMAIN telemetry[1].properties
    /\ Mutate(properties_mut(telemetry[1], Remove(telemetry[1].properties, k)))

tags_insert(k, v) ==
    /\ telemetry # None
    /\ Mutate(tags_mut(telemetry[1], Insert(telemetry[1].tags, k, v)))

tags_remove(k) ==
    /\ telemetry # None
    /\ k \in DOMAIN telemetry[1].tags
    /\ Mutate(tags_mut(telemetry[1], Remove(telemetry[1].tags, k)))

measurements_insert(k, v) ==
    /\ telemetry # None
    /\ Mutate(measurements_mut(telemetry[1], Insert(telemetry[1].measurements, k, v)))

measurements_remove(k) ==
    /\ telemetry # None
    /\ k \in DOMAIN telemetry[1].measurements
    /\ Mutate(measurements_mut(telemetry[1], Remove(telemetry[1].measurements, k)))

\* Envelope::from((c, telemetry)).  The record is moved into the call; the
\* variable keeps the moved value as history.
Envelope_from(c) ==
    /\ pc = "record"
    /\ envelope' = Some(EnvelopeFrom(c, telemetry[1]))
    /\ context' = Some(c)
    /\ pc' = "built"
    /\ UNCHANGED <<telemetry, created, ID, issued, ids>>

\* The envelope goes to the sender.
Submit ==
    /\ pc = "built"
    /\ pc' = "idle"
    /\ telemetry' = None
    /\ created' = None
    /\ context' = None
    /\ envelope' = None
    /\ UNCHANGED <<ID, issued, ids>>

id_set(uuid) ==
    /\ ID' = Some(uuid)
    /\ issued' = issued \cup {uuid}
    /\ UNCHANGED <<pc, telemetry, created, context, envelope, ids>>

id_reset ==
    /\ ID' = None
    /\ UNCHANGED <<pc, telemetry, created, context, envelope, issued, ids>>

(***************************************************************************)
(* Specifications.  Spec varies the maps of the record and the context;    *)
(* the others vary one argument of new() each, or the id injection.        *)
(***************************************************************************)
Next ==
    \/ \E code \in {200, 500} :
         RequestTelemetry_new("GET", TestUri, TestDuration, code, TestNow)
    \/ \E k \in Keys, v \in Values : properties_insert(k, v)
    \/ \E k \in Keys : properties_remove(k)
    \/ \E k \in Keys, v \in Values : tags_insert(k, v)
    \/ \E k \in Keys : tags_remove(k)
    \/ \E k \in MeasureKeys, v \in MeasureValues : measurements_insert(k, v)
    \/ \E k \in MeasureKeys : measurements_remove(k)
    \/ \E c \in Contexts : Envelope_from(c)
    \/ Submit

Spec == Init /\ [][Next]_vars

NextStatus ==
    \/ \E code \in StatusCodes :
         RequestTelemetry_new("GET", TestUri, TestDuration, code, TestNow)
    \/ Envelope_from(EmptyContext)
    \/ Submit

SpecStatus == Init /\ [][NextStatus]_vars

NextDuration ==
    \/ \E d \in Durations : RequestTelemetry_new("GET", TestUri, d, 200, TestNow)
    \/ Envelope_from(EmptyContext)
    \/ Submit

SpecDuration == Init /\ [][NextDuration]_vars

NextUri ==
    \/ \E m \in Methods, u \in Uris : RequestTelemetry_new(m, u, TestDuration, 200, TestNow)
    \/ Envelope_from(EmptyContext)
    \/ Submit

SpecUri == Init /\ [][NextUri]_vars

NextTime ==
    \/ \E now \in Timestamps : RequestTelemetry_new("GET", TestUri, TestDuration, 200, now)
    \/ Envelope_from(EmptyContext)
    \/ Submit

SpecTime == Init /\ [][NextTime]_vars

NextId ==
    \/ \E m \in Methods : RequestTelemetry_new(m, TestUri, TestDuration, 200, TestNow)
    \/ Envelope_from(EmptyContext)
    \/ Submit
    \/ \E u \in Uuids : id_set(u)
    \/ id_reset

SpecId == Init /\ [][NextId]_vars

(***************************************************************************)
(* Properties.                                                             *)
(***************************************************************************)
Range(s) == { s[i] : i \in DOMAIN s }

\* merged is base overridden by over, key by key.
MergedAsClaimed(base, over, merged) ==
    /\ DOMAIN merged = (DOMAIN base) \cup (DOMAIN over)
    /\ \A k \in DOMAIN over : merged[k] = over[k]
    /\ \A k \in (DOMAIN base) \ (DOMAIN over) : merged[k] = base[k]

\* C1: the envelope's properties and tags are the context's map overridden by
\* the record's map: the key set is the union, a key of the record carries the
\* record's value, a key of the context alone carries the context's value.
C1_MergeOverrideWins ==
    pc = "built" =>
        /\ MergedAsClaimed(context[1].properties, telemetry[1].properties,
                           envelope[1].data.properties)
        /\ MergedAsClaimed(context[1].tags, telemetry[1].tags, envelope[1].tags)

C1_Witness ==
    /\ pc = "built"
    /\ context[1].properties = TestMap
    /\ context[1].tags = TestMap
    /\ telemetry[1].properties = Insert(EmptyMap, "no-write", "ok")
    /\ telemetry[1].tags = Insert(Insert(EmptyMap, "no-write", "ok"), "test", "fail")
    /\ envelope[1].data.properties = Insert(Insert(EmptyMap, "no-write", "ok"), "test", "ok")
    /\ envelope[1].tags = telemetry[1].tags

\* C2: is_success() is true exactly for the codes below 400 and for 401, false
\* for 400, 402, 403 and every other code from 400 up, and the envelope's
\* success flag is is_success() of the record.
C2_SuccessClassification ==
    pc # "idle" =>
        LET code == telemetry[1].response_code
        IN  /\ is_success(telemetry[1]) <=> (code \in 100..399 \/ code = 401)
            /\ code \in {400, 402, 403} => ~is_success(telemetry[1])
            /\ pc = "built" => envelope[1].data.success = is_success(telemetry[1])

C2_Witness ==
    /\ pc = "built"
    /\ telemetry[1].response_code = 401
    /\ envelope[1].data.success = TRUE
    /\ envelope[1].data.response_code = <<"4", "0", "1">>

RECURSIVE Split(_)
\* The fields of a text between its "." and ":" separators.
Split(s) ==
    IF s = <<>> THEN << <<>> >>
    ELSE LET r == Split(Tail(s))
         IN  IF Head(s) \in {".", ":"} THEN << <<>> >> \o r
             ELSE << <<Head(s)>> \o r[1] >> \o Tail(r)

IsNumber(f) == f # <<>> /\ \A i \in DOMAIN f : IsDigit(f[i])

\* C3: the duration string is D.HH:MM:SS.FFFFFFF with HH in 0..23, MM and SS in
\* 0..59 on 2 digits, FFFFFFF on 7 digits, D unpadded; the fields decompose
\* floor(T / 100) without loss (compared in base 10^7: whole seconds and ticks),
\* the sub-tick remainder is cut, and formatting the duration read back from
\* the string gives the string again.
C3_DurationDecomposition ==
    pc = "built" =>
        LET str == envelope[1].data.duration
            d == created[1].duration
            f == Split(str)
        IN  /\ Len(f) = 5
            /\ \A i \in 1..5 : IsNumber(f[i])
            /\ str = f[1] \o <<".">> \o f[2] \o <<":">> \o f[3] \o <<":">> \o f[4]
                     \o <<".">> \o f[5]
            /\ Len(f[2]) = 2 /\ Len(f[3]) = 2 /\ Len(f[4]) = 2 /\ Len(f[5]) = 7
            /\ LET D == ParseDec(f[1])
                   HH == ParseDec(f[2])
                   MM == ParseDec(f[3])
                   SS == ParseDec(f[4])
                   F == ParseDec(f[5])
                   secs == (((D * 24 + HH) * 60 + MM) * 60) + SS
               IN  /\ HH \in 0..23 /\ MM \in 0..59 /\ SS \in 0..59 /\ F \in 0..9999999
                   /\ Dec(D) = f[1]
                   /\ secs = d.secs
                   /\ F = d.nanos \div 100
                   /\ FormattedDuration_fmt(MkDuration(secs, F * 100)) = str

C3_Witness ==
    /\ pc = "built"
    /\ created[1].duration = MkDuration(2 * 86400 + 3723, 999999950)
    /\ envelope[1].data.duration =
         <<"2", ".", "0", "1", ":", "0", "2", ":", "0", "3", ".",
           "9", "9", "9", "9", "9", "9", "9">>

\* u is scheme://host[:port]/path of the input, with no query string.
NormalForm(in, u) ==
    /\ u.query = None
    /\ "?" \notin Range(uri_to_string(u))
    /\ in.host # None
    /\ uri_to_string(u) =
         (IF in.scheme # None THEN <<in.scheme[1]>> ELSE <<>>) \o <<"://">>
         \o <<in.host[1]>>
         \o (IF in.port # None THEN <<":">> \o Dec(in.port[1]) ELSE <<>>)
         \o <<IF in.path = "" THEN "/" ELSE in.path>>

NameOf(method, u) == <<method, " ">> \o uri_to_string(u)

C5_FallbackToOriginal ==
    /\ (pc = "idle" /\ Len(ids) < MaxRecords /\ id_new # {}) =>
          \A u \in Uris : ENABLED RequestTelemetry_new("GET", u, TestDuration, 200, TestNow)
    /\ pc # "idle" =>
          (~new_rebuild(created[1].uri).ok =>
              /\ telemetry[1].uri = created[1].uri
              /\ telemetry[1].name = NameOf(created[1].method, created[1].uri))

C5_Witness ==
    /\ pc = "record"
    /\ created[1].uri = MkUri(None, None, None, None, "/main.html", Some("x=1"))
    /\ ~new_rebuild(created[1].uri).ok
    /\ telemetry[1].name = <<"POST", " ", "/main.html", "?", "x=1">>

\* C6: the envelope's iKey is the context's raw instrumentation key and its
\* name is Microsoft.ApplicationInsights.<normalized key>.Request; when the
\* two keys differ the normalized one is not the iKey and the raw one is not
\* in the name.
C6_KeysKeptApart ==
    pc = "built" =>
        LET c == context[1]
            e == envelope[1]
        IN  /\ e.i_key = c.i_key
            /\ e.name = <<"Microsoft.ApplicationInsights.", c.normalized_i_key, ".", "Request">>
            /\ c.i_key # c.normalized_i_key =>
                 /\ e.i_key # c.normalized_i_key
                 /\ c.i_key \notin Range(e.name)

C6_Witness ==
    /\ pc = "built"
    /\ context[1].i_key = "AB-CD"
    /\ context[1].normalized_i_key = "abcd"
    /\ envelope[1].i_key = "AB-CD"
    /\ envelope[1].name = <<"Microsoft.ApplicationInsights.", "abcd", ".", "Request">>

\* C7: the envelope's time ends in Z and has exactly 3 fraction digits, the
\* milliseconds of the timestamp cut (not rounded) from finer precision and
\* zero-padded from coarser precision.
C7_MillisecondTime ==
    pc = "built" =>
        LET s == envelope[1].time
            ts == telemetry[1].timestamp
            n == Len(s)
        IN  /\ n > 5
            /\ s[n] = "Z"
            /\ s[n - 4] = "."
            /\ Cardinality({i \in 1..n : s[i] = "."}) = 1
            /\ \A i \in (n - 3)..(n - 1) : IsDigit(s[i])
            /\ ParseDec(SubSeq(s, n - 3, n - 1)) = ts.nanos \div 1000000
            /\ SubSeq(s, 1, n - 5) = <<ts.date, "T">> \o time_of_day(ts)

C7_Witness ==
    /\ pc = "built"
    /\ telemetry[1].timestamp = MkTime("2019-01-02", 11045, 999999999)
    /\ envelope[1].time =
         <<"2019-01-02", "T", "0", "3", ":", "0", "4", ":", "0", "5", ".",
           "9", "9", "9", "Z">>

\* C8: the envelope's measurements are the record's measurements as they stand
\* when the envelope is built; the build adds, drops and changes no key, and
\* the context's maps play no part in them.
C8_MeasurementsPassThrough ==
    pc = "built" =>
        /\ envelope[1].data.measurements = telemetry[1].measurements
        /\ \A c \in Contexts :
             EnvMeasurements(c, telemetry[1]) = envelope[1].data.measurements

C8_Witness ==
    /\ pc = "built"
    /\ created[1].record.measurements = EmptyMap
    /\ telemetry[1].measurements = Insert(EmptyMap, "latency", 200)
    /\ envelope[1].data.measurements = Insert(EmptyMap, "latency", 200)
    /\ context[1].properties = TestMap
    /\ context[1].tags = TestMap

Fixed(t) == <<t.id, t.name, t.uri, t.duration, t.response_code, t.timestamp>>

PropertiesStep == (\E k \in Keys, v \in Values : properties_insert(k, v))
                  \/ (\E k \in Keys : properties_remove(k))
TagsStep == (\E k \in Keys, v \in Values : tags_insert(k, v))
            \/ (\E k \in Keys : tags_remove(k))
MeasurementsStep == (\E k \in MeasureKeys, v \in MeasureValues : measurements_insert(k, v))
                    \/ (\E k \in MeasureKeys : measurements_remove(k))

\* C9: the mutations through properties_mut, tags_mut and measurements_mut
\* leave id, name, uri, duration, response code and timestamp as new() set
\* them, so the envelope's id, name, url, duration and responseCode are those
\* of new(); and each mutator changes its own map only.
C9_MutatorsFrame ==
    /\ [](pc # "idle" => Fixed(telemetry[1]) = Fixed(created[1].record))
    /\ [](pc = "built" =>
            LET r == created[1].record
                data == envelope[1].data
            IN  /\ data.id = to_hyphenated(r.id)
                /\ data.name = r.name
                /\ data.url = uri_to_string(r.uri)
                /\ data.duration = FormattedDuration_fmt(r.duration)
                /\ data.response_code = Dec(r.response_code))
    /\ [][PropertiesStep =>
            /\ telemetry'[1].tags = telemetry[1].tags
            /\ telemetry'[1].measurements = telemetry[1].measurements]_vars
    /\ [][TagsStep =>
            /\ telemetry'[1].properties = telemetry[1].properties
            /\ telemetry'[1].measurements = telemetry[1].measurements]_vars
    /\ [][MeasurementsStep =>
            /\ telemetry'[1].properties = telemetry[1].properties
            /\ telemetry'[1].tags = telemetry[1].tags]_vars

C9_Witness ==
    /\ pc = "built"
    /\ telemetry[1].properties = Insert(EmptyMap, "test", "ok")
    /\ telemetry[1].tags = Insert(EmptyMap, "no-write", "fail")
    /\ telemetry[1].measurements = Insert(EmptyMap, "latency", 1)
    /\ envelope[1].data.response_code = <<"5", "0", "0">>

\* C10 as stated: no two constructed records carry the same id.
C10_NoIdReuse ==
    \A i, j \in DOMAIN ids : i # j => ids[i].id # ids[j].id

\* C10 amended: a record constructed while no id is injected carries an id that
\* no earlier record carries; a record constructed while id::set(u) is in
\* force carries u, so records constructed under one injection share their id.
C10_FreshUnlessInjected ==
    \A j \in DOMAIN ids :
        /\ ids[j].injected = None => \A i \in 1..(j - 1) : ids[i].id # ids[j].id
        /\ ids[j].injected # None => ids[j].id = ids[j].injected[1]

C10_Witness ==
    /\ Len(ids) = 2
    /\ ids[1].injected = None
    /\ ids[2].injected = Some(ids[1].id)
    /\ ids[1].id = ids[2].id

====
